---- MODULE Spec2Model ----
(***************************************************************************)
(* Model of .github/scripts/validate_packages.py, the validator of the     *)
(* rainmeas package registry: index.json, packages/*.json and the HEAD     *)
(* request sent to every version's download URL.                           *)
(*                                                                         *)
(* Python values are modelled as follows.                                  *)
(*   str    a sequence of one-character strings                            *)
(*   JSON   a record [t |-> type tag, s |-> the characters of a str,       *)
(*          a |-> the items of a list, o |-> the entries of a dict]; the   *)
(*          entries of a dict are a function from keys (str) to JSON       *)
(*          values.  json.load maps null to None, the value JNull.         *)
(*   raise  a function that can raise returns a record with a field        *)
(*          raised; an exception nobody catches ends main() in pc =        *)
(*          "crashed" (the interpreter prints the traceback and exits 1).  *)
(***************************************************************************)
EXTENDS Integers, Sequences, FiniteSets, TLC

VARIABLES
    fs_index,        \* content of index.json (Missing: no such file)
    fs_dir_exists,   \* os.path.exists("packages")
    fs_dir,          \* packages/: file name -> content
    pc,              \* position in main(), or in the call of a pure function
    index_data,      \* main: index_data
    package_files,   \* main: package_files (os.listdir order is arbitrary: a set)
    remaining,       \* package files the for loop of line 183 has not reached yet
    package_file,    \* main: package_file of the current iteration
    package_data,    \* main: package_data of the current iteration
    total_errors,    \* main: total_errors
    total_warnings,  \* main: total_warnings
    exit_code,       \* process exit status, NoExit while running
    trace,           \* history: the operations main() has carried out, in order
    arg,             \* arguments of the pure function being called
    ret              \* its result

vars == <<fs_index, fs_dir_exists, fs_dir, pc, index_data, package_files,
          remaining, package_file, package_data, total_errors, total_warnings,
          exit_code, trace, arg, ret>>

----------------------------------------------------------------------------
(* Bounds of the model. *)

MaxFiles == 2
MaxIndexKeys == 2
MaxVersions == 2

----------------------------------------------------------------------------
(* Strings. *)

DOT_JSON == <<".", "j", "s", "o", "n">>
TIMEOUT == 10

K_name == <<"n", "a", "m", "e">>
K_author == <<"a", "u", "t", "h", "o", "r">>
K_description == <<"d", "e", "s", "c", "r", "i", "p", "t", "i", "o", "n">>
K_versions == <<"v", "e", "r", "s", "i", "o", "n", "s">>
K_latest == <<"l", "a", "t", "e", "s", "t">>
K_download == <<"d", "o", "w", "n", "l", "o", "a", "d">>

\* s[i..] starts with p
StartsAt(s, i, p) ==
    /\ i + Len(p) - 1 <= Len(s)
    /\ \A k \in 1..Len(p) : s[i + k - 1] = p[k]

\* str.endswith
EndsWith(s, suffix) ==
    /\ Len(suffix) <= Len(s)
    /\ StartsAt(s, Len(s) - Len(suffix) + 1, suffix)

\* `sub in s` for two str
IsSubstring(sub, s) == \E i \in 1..(Len(s) + 1) : StartsAt(s, i, sub)

\* s[i..].replace(old, ""): every non-overlapping occurrence, left to right
RECURSIVE ReplaceFrom(_, _, _)
ReplaceFrom(s, i, old) ==
    IF i > Len(s) THEN <<>>
    ELSE IF StartsAt(s, i, old) THEN ReplaceFrom(s, i + Len(old), old)
    ELSE <<s[i]>> \o ReplaceFrom(s, i + 1, old)

\* package_file.replace(".json", "")
PackageNameOf(file) == ReplaceFrom(file, 1, DOT_JSON)

\* f"{package_name}.json"
ExpectedFile(package_name) == package_name \o DOT_JSON

----------------------------------------------------------------------------
(* JSON values and what load_json_file makes of a file. *)

\* a value without payload
Scalar(tag) == [t |-> tag, s |-> <<>>, a |-> <<>>, o |-> <<>>]

Missing == Scalar("missing")     \* no such file
Invalid == Scalar("invalid")     \* text json.load rejects
JNull == Scalar("null")
None == JNull
JNum == Scalar("number")
JBool == Scalar("bool")
JStr(str) == [t |-> "string", s |-> str, a |-> <<>>, o |-> <<>>]
JArr(list) == [t |-> "array", s |-> <<>>, a |-> list, o |-> <<>>]
JObj(dict) == [t |-> "object", s |-> <<>>, a |-> <<>>, o |-> dict]
EmptyObj == JObj(<<>>)

\* load_json_file: the parsed value, None on any failure (and for the text null)
load_json_file(content) ==
    IF content.t \in {"missing", "invalid"} THEN None ELSE content

\* == between two Python values of the model
PyEq(a, b) == a = b

isinstance_dict(x) == x.t = "object"

\* `key in x` is defined for dict, list and str, a TypeError otherwise
SupportsIn(x) == x.t \in {"object", "array", "string"}

\* `key in x` for a str key
StrIn(key, x) ==
    CASE x.t = "object" -> key \in DOMAIN x.o
      [] x.t = "array" -> \E i \in 1..Len(x.a) : PyEq(x.a[i], JStr(key))
      [] x.t = "string" -> IsSubstring(key, x.s)
      [] OTHER -> FALSE

\* hash(x) is defined: a list or a dict as a dict key is a TypeError
Hashable(x) == x.t \notin {"array", "object"}

\* `x in d` for a dict d (all keys of a JSON object are str)
KeyIn(x, d) == x.t = "string" /\ x.s \in DOMAIN d.o

\* d.get(key)
Get(d, key) == IF key \in DOMAIN d.o THEN d.o[key] ELSE None

\* A set of str as a sequence, in the order the dict or list holds them.
RECURSIVE SetToSeq(_)
SetToSeq(S) ==
    IF S = {} THEN <<>>
    ELSE LET x == CHOOSE y \in S : TRUE IN <<x>> \o SetToSeq(S \ {x})

Returned(errors) == [raised |-> FALSE, errors |-> errors, warnings |-> <<>>, requests |-> <<>>]
Raised == [raised |-> TRUE, errors |-> <<>>, warnings |-> <<>>, requests |-> <<>>]

----------------------------------------------------------------------------
(* validate_package_structure *)

required_fields == <<K_name, K_author, K_description, K_versions>>

\* An error or warning message: <<what it says, the str it names>>
Msg(kind, what) == <<kind, what>>

\* The loop of lines 46-48, from field number i on
RECURSIVE MissingFields(_, _)
MissingFields(data, i) ==
    IF i > Len(required_fields) THEN <<>>
    ELSE (IF ~StrIn(required_fields[i], data)
          THEN <<Msg("Missing required field", required_fields[i])>>
          ELSE <<>>) \o MissingFields(data, i + 1)

\* line 51
NameErrors(package_name, data) ==
    IF ~PyEq(Get(data, K_name), JStr(package_name))
    THEN <<Msg("Package name doesn't match filename", package_name)>>
    ELSE <<>>

\* line 63: `latest not in versions`
LatestNotFound(latest, versions) == ~KeyIn(latest, versions)

\* lines 55-66; raises at line 63 when latest is a list or a dict
VersionsErrors(data) ==
    IF K_versions \notin DOMAIN data.o THEN Returned(<<>>)
    ELSE LET versions == data.o[K_versions] IN
         IF ~isinstance_dict(versions)
         THEN Returned(<<Msg("Versions must be an object", <<>>)>>)
         ELSE IF K_latest \in DOMAIN versions.o
         THEN LET latest == versions.o[K_latest] IN
              IF ~Hashable(latest) THEN Raised
              ELSE IF LatestNotFound(latest, versions)
              THEN Returned(<<Msg("Latest version not found in versions",
                                  IF latest.t = "string" THEN latest.s ELSE <<>>)>>)
              ELSE Returned(<<>>)
         ELSE Returned(<<Msg("Missing 'latest' field in versions", <<>>)>>)

validate_package_structure(package_name, data) ==
    IF ~SupportsIn(data) THEN Raised              \* line 47: TypeError
    ELSE IF ~isinstance_dict(data) THEN Raised    \* line 51: AttributeError
    ELSE LET v == VersionsErrors(data) IN
         IF v.raised THEN Raised
         ELSE Returned(MissingFields(data, 1) \o NameErrors(package_name, data)
                       \o v.errors)

----------------------------------------------------------------------------
(* validate_version_download_url and validate_package_versions *)

\* What requests.head does: a response with a status code, or an exception
Response(code) == [exc |-> "none", status_code |-> code]
Failure(exc) == [exc |-> exc, status_code |-> 0]
Responses == {Response(200), Response(404), Response(500),
              Failure("Timeout"), Failure("RequestException")}

validate_version_download_url(version, response) ==
    IF response.exc = "Timeout"
    THEN [is_valid |-> FALSE, message |-> "Timeout when checking download URL"]
    ELSE IF response.exc = "RequestException"
    THEN [is_valid |-> FALSE, message |-> "Error checking download URL"]
    ELSE IF response.status_code = 200
    THEN [is_valid |-> TRUE, message |-> ""]
    ELSE IF response.status_code = 404
    THEN [is_valid |-> FALSE, message |-> "URL not found (404)"]
    ELSE [is_valid |-> FALSE, message |-> "HTTP status"]

\* requests.head(download_url, timeout=TIMEOUT, allow_redirects=True)
HeadRequest(version, download_url) ==
    [version |-> version, url |-> download_url, timeout |-> TIMEOUT,
     allow_redirects |-> TRUE]

AllKeys(versions) == DOMAIN versions.o

\* line 100
VersionKeys(versions) == DOMAIN versions.o \ {K_latest}

\* One iteration of the loop of lines 102-120; net[version] is what the
\* network answers to the HEAD request for that version.
CheckVersion(version, version_data, net) ==
    IF isinstance_dict(version_data)
    THEN IF K_download \notin DOMAIN version_data.o
         THEN [errors |-> <<Msg("Version missing download URL", version)>>,
               warnings |-> <<>>, requests |-> <<>>]
         ELSE LET r == validate_version_download_url(version, net[version]) IN
              [errors |-> IF ~r.is_valid
                          THEN <<Msg("Invalid download URL", version)>> ELSE <<>>,
               warnings |-> <<>>,
               requests |-> <<HeadRequest(version, version_data.o[K_download])>>]
    ELSE [errors |-> <<>>,
          warnings |-> <<Msg("Version is not an object", version)>>,
          requests |-> <<>>]

RECURSIVE CheckVersions(_, _, _, _)
CheckVersions(keys, i, versions, net) ==
    IF i > Len(keys) THEN [errors |-> <<>>, warnings |-> <<>>, requests |-> <<>>]
    ELSE LET one == CheckVersion(keys[i], versions.o[keys[i]], net)
             rest == CheckVersions(keys, i + 1, versions, net)
         IN [errors |-> one.errors \o rest.errors,
             warnings |-> one.warnings \o rest.warnings,
             requests |-> one.requests \o rest.requests]

validate_package_versions(package_name, data, net) ==
    IF ~SupportsIn(data) THEN Raised              \* line 93: TypeError
    ELSE IF ~StrIn(K_versions, data)
    THEN Returned(<<Msg("Missing versions data", <<>>)>>)
    ELSE IF ~isinstance_dict(data) THEN Raised    \* line 97: TypeError
    ELSE LET versions == data.o[K_versions] IN
         IF ~isinstance_dict(versions) THEN Raised  \* line 100: AttributeError
         ELSE LET r == CheckVersions(SetToSeq(VersionKeys(versions)), 1, versions, net)
              IN [raised |-> FALSE, errors |-> r.errors, warnings |-> r.warnings,
                  requests |-> r.requests]

----------------------------------------------------------------------------
(* validate_index_consistency *)

\* lines 130-133
RECURSIVE IndexToFiles(_, _, _)
IndexToFiles(keys, i, files) ==
    IF i > Len(keys) THEN <<>>
    ELSE (IF ExpectedFile(keys[i]) \notin files
          THEN <<Msg("Package in index.json but no corresponding file", keys[i])>>
          ELSE <<>>) \o IndexToFiles(keys, i + 1, files)

\* lines 136-140
RECURSIVE FilesToIndex(_, _, _)
FilesToIndex(files, i, package_names_in_index) ==
    IF i > Len(files) THEN <<>>
    ELSE (IF PackageNameOf(files[i]) \notin package_names_in_index
          THEN <<Msg("Package file not referenced in index.json", files[i])>>
          ELSE <<>>) \o FilesToIndex(files, i + 1, package_names_in_index)

\* index_data.keys() is an AttributeError for anything but a dict
validate_index_consistency(index, files) ==
    IF ~isinstance_dict(index) THEN Raised
    ELSE Returned(IndexToFiles(SetToSeq(DOMAIN index.o), 1, files)
                  \o FilesToIndex(SetToSeq(files), 1, DOMAIN index.o))

----------------------------------------------------------------------------
(* The inputs: bounded sets of arguments and file contents. *)

A == <<"a">>
B == <<"b">>
URL == JStr(<<"u">>)
Range(q) == {q[i] : i \in 1..Len(q)}
Restrict(f, S) == [k \in S |-> f[k]]
AtMost(U, n) == {S \in SUBSET U : Cardinality(S) <= n}

PackageNames == {A, B}
VersionIds == {<<"1">>, <<"2">>, <<"3">>}
\* a legacy entry, an object without download, an object with download
VersionEntries == {JStr(<<"x">>), EmptyObj, JObj(K_download :> URL)}
LatestValues == {JStr(<<"1">>), JStr(<<"2">>), JStr(K_latest), JNum, JArr(<<>>)}
VersionMaps == UNION {[S -> VersionEntries] : S \in AtMost(VersionIds, MaxVersions)}
VersionsDicts ==
    {JObj(m) : m \in VersionMaps}
    \cup {JObj(m @@ (K_latest :> l)) : m \in VersionMaps, l \in LatestValues}
VersionsValues == VersionsDicts \cup {JArr(<<>>), JStr(<<"1">>)}
NameValues == {JStr(A), JStr(B), JNum}

Descriptor(name, versions) ==
    (K_name :> name) @@ (K_author :> JStr(<<"x">>))
    @@ (K_description :> JStr(<<"d">>)) @@ (K_versions :> versions)

\* every descriptor with any subset of the required fields
Descriptors ==
    {JObj(Restrict(Descriptor(n, v), S)) :
        n \in NameValues, v \in VersionsValues, S \in SUBSET Range(required_fields)}

\* JSON documents that are no object
NonObjects == {JArr(<<>>), JArr(<<JStr(K_name)>>), JStr(K_versions), JNum, JBool}

IndexKeys == {A, B, A \o DOT_JSON, B \o DOT_JSON}
JsonFiles == {A \o DOT_JSON, B \o DOT_JSON, A \o DOT_JSON \o DOT_JSON,
              B \o DOT_JSON \o DOT_JSON}
IndexObject(keys) == JObj([k \in keys |-> EmptyObj])

NoExit == -1

\* main()'s variables while a validator is called on its own
MainIdle ==
    /\ fs_index = Missing
    /\ fs_dir_exists = FALSE
    /\ fs_dir = <<>>
    /\ index_data = None
    /\ package_files = {}
    /\ remaining = {}
    /\ package_file = <<>>
    /\ package_data = None
    /\ total_errors = 0
    /\ total_warnings = 0
    /\ exit_code = NoExit
    /\ trace = <<>>

mainVars == <<fs_index, fs_dir_exists, fs_dir, index_data, package_files,
              remaining, package_file, package_data, total_errors,
              total_warnings, exit_code, trace>>

----------------------------------------------------------------------------
(* validate_package_structure on every descriptor of the bounds. *)

InitStructure ==
    /\ MainIdle
    /\ pc = "call"
    /\ arg \in [package_name : PackageNames, package_data : Descriptors \cup NonObjects]
    /\ ret = Raised

CallStructure ==
    /\ pc = "call"
    /\ ret' = validate_package_structure(arg.package_name, arg.package_data)
    /\ pc' = IF ret'.raised THEN "raised" ELSE "returned"
    /\ UNCHANGED <<arg, mainVars>>

SpecStructure == InitStructure /\ [][CallStructure]_vars

----------------------------------------------------------------------------
(* validate_package_versions on every descriptor whose versions is a dict,  *)
(* under every answer of the network.                                       *)

VersionsInputs ==
    {JObj(Descriptor(JStr(A), v)) : v \in VersionsDicts}
    \cup {JObj(Restrict(Descriptor(JStr(A), EmptyObj), {K_name, K_author}))}

NetOf(data) ==
    IF isinstance_dict(data) /\ K_versions \in DOMAIN data.o
       /\ isinstance_dict(data.o[K_versions])
    THEN [VersionKeys(data.o[K_versions]) -> Responses]
    ELSE {<<>>}

InitVersions ==
    /\ MainIdle
    /\ pc = "call"
    /\ arg \in [package_name : {A}, package_data : VersionsInputs]
    /\ ret = [result |-> Raised, net |-> <<>>]

CallVersions ==
    /\ pc = "call"
    /\ \E net \in NetOf(arg.package_data) :
          ret' = [result |-> validate_package_versions(arg.package_name,
                                                       arg.package_data, net),
                  net |-> net]
    /\ pc' = "returned"
    /\ UNCHANGED <<arg, mainVars>>

SpecVersions == InitVersions /\ [][CallVersions]_vars

----------------------------------------------------------------------------
(* validate_index_consistency on every index and every set of file names.   *)

InitIndex ==
    /\ MainIdle
    /\ pc = "call"
    /\ arg \in [index_data : {IndexObject(K) : K \in AtMost(IndexKeys, MaxIndexKeys)},
                package_files : AtMost(JsonFiles, MaxFiles)]
    /\ ret = Raised

CallIndex ==
    /\ pc = "call"
    /\ ret' = validate_index_consistency(arg.index_data, arg.package_files)
    /\ pc' = "returned"
    /\ UNCHANGED <<arg, mainVars>>

SpecIndex == InitIndex /\ [][CallIndex]_vars

----------------------------------------------------------------------------
(* main() *)

V1 == <<"1">>
V2 == <<"2">>
WithDownload == JObj(K_download :> URL)
GoodVersions == JObj((K_latest :> JStr(V1)) @@ (V1 :> WithDownload))
Package(name, versions) == JObj(Descriptor(JStr(name), versions))

\* What a file of packages/ may hold
PackageContents ==
    { Invalid, JNull, JArr(<<>>), JNum,
      Package(A, GoodVersions),
      Package(B, GoodVersions),
      Package(A, JObj((K_latest :> JStr(V2)) @@ (V1 :> WithDownload))),
      JObj(Restrict(Descriptor(JStr(A), GoodVersions), {K_name, K_versions})),
      Package(A, JObj((K_latest :> JStr(V1)) @@ (V1 :> JStr(<<"x">>))
                      @@ (V2 :> WithDownload))),
      Package(A, JObj((K_latest :> JStr(V1)) @@ (V1 :> EmptyObj))),
      Package(A, JObj(K_latest :> JStr(K_latest))),
      Package(A, JObj(K_latest :> JArr(<<>>))) }

\* What index.json may hold
MainIndexKeys == {A, B, A \o DOT_JSON}
IndexContents ==
    {Missing, Invalid, JNull, JArr(<<>>)}
    \cup {IndexObject(K) : K \in AtMost(MainIndexKeys, MaxIndexKeys)}

\* The names packages/ may hold; the last one is no .json file
DirNames == {A \o DOT_JSON, B \o DOT_JSON, A \o DOT_JSON \o DOT_JSON,
             <<"a", ".", "t", "x", "t">>}
Directories ==
    UNION {{d \in [S -> PackageContents] :
               \A f \in S : ~EndsWith(f, DOT_JSON) => d[f] = Invalid} :
           S \in AtMost(DirNames, MaxFiles)}

Event(ev, file, version, errors, warnings) ==
    [ev |-> ev, file |-> file, version |-> version, errors |-> errors,
     warnings |-> warnings]

Init ==
    /\ fs_index \in IndexContents
    /\ fs_dir_exists \in BOOLEAN
    /\ fs_dir \in IF fs_dir_exists THEN Directories ELSE {<<>>}
    /\ pc = "load_index"
    /\ index_data = None
    /\ package_files = {}
    /\ remaining = {}
    /\ package_file = <<>>
    /\ package_data = None
    /\ total_errors = 0
    /\ total_warnings = 0
    /\ exit_code = NoExit
    /\ trace = <<>>
    /\ arg = <<>>
    /\ ret = Raised

IndexLoadIgnored(data) == FALSE

\* line 157
IndexLoadFailed(data) == data = None

\* line 168
ListPackageFiles(dir) == {f \in DOMAIN dir : EndsWith(f, DOT_JSON)}

CountOnce(total, messages) == total + (IF Len(messages) > 0 THEN 1 ELSE 0)

\* the loops of lines 174-176, 197-199, 207-209 and 210-212
Count(total, messages) == total + Len(messages)

\* line 190-191
PackageLoadFailed(data) == data = None

NeverSkipVersions(structure_errors) == FALSE

\* line 201
SkipVersions(structure_errors) == Len(structure_errors) > 0

ExitCodeCountingWarnings(errors, warnings) ==
    IF errors > 0 \/ warnings > 0 THEN 1 ELSE 0

\* lines 226-231
ExitCode(errors, warnings) == IF errors > 0 THEN 1 ELSE 0

\* An uncaught exception: traceback, exit status 1
Crash ==
    /\ pc' = "crashed"
    /\ exit_code' = 1

\* lines 153-161
LoadIndex ==
    /\ pc = "load_index"
    /\ index_data' = load_json_file(fs_index)
    /\ trace' = Append(trace, Event("load_index", <<>>, <<>>, 0, 0))
    /\ IF IndexLoadFailed(index_data')
       THEN pc' = "done" /\ exit_code' = 1
       ELSE pc' = "check_dir" /\ exit_code' = exit_code
    /\ UNCHANGED <<fs_index, fs_dir_exists, fs_dir, package_files, remaining,
                   package_file, package_data, total_errors, total_warnings,
                   arg, ret>>

\* lines 163-169
CheckDir ==
    /\ pc = "check_dir"
    /\ trace' = Append(trace, Event("check_dir", <<>>, <<>>, 0, 0))
    /\ IF ~fs_dir_exists
       THEN /\ pc' = "done"
            /\ exit_code' = 1
            /\ UNCHANGED <<package_files, remaining>>
       ELSE /\ pc' = "consistency"
            /\ package_files' = ListPackageFiles(fs_dir)
            /\ remaining' = package_files'
            /\ exit_code' = exit_code
    /\ UNCHANGED <<fs_index, fs_dir_exists, fs_dir, index_data, package_file,
                   package_data, total_errors, total_warnings, arg, ret>>

\* lines 171-180
CheckConsistency ==
    /\ pc = "consistency"
    /\ LET r == validate_index_consistency(index_data, package_files) IN
       /\ trace' = Append(trace, Event("consistency", <<>>, <<>>, Len(r.errors), 0))
       /\ IF r.raised
          THEN Crash /\ UNCHANGED total_errors
          ELSE /\ total_errors' = Count(total_errors, r.errors)
               /\ pc' = "loop"
               /\ exit_code' = exit_code
    /\ UNCHANGED <<fs_index, fs_dir_exists, fs_dir, index_data, package_files,
                   remaining, package_file, package_data, total_warnings, arg, ret>>

\* lines 183-193: the next package file, in the order os.listdir gave
LoadPackage ==
    /\ pc = "loop"
    /\ \E f \in remaining :
          /\ package_file' = f
          /\ remaining' = remaining \ {f}
          /\ package_data' = load_json_file(fs_dir[f])
          /\ IF PackageLoadFailed(package_data')
             THEN /\ total_errors' = total_errors + 1
                  /\ pc' = "loop"
                  /\ trace' = Append(trace, Event("load", f, <<>>, 1, 0))
             ELSE /\ total_errors' = total_errors
                  /\ pc' = "structure"
                  /\ trace' = Append(trace, Event("load", f, <<>>, 0, 0))
    /\ UNCHANGED <<fs_index, fs_dir_exists, fs_dir, index_data, package_files,
                   total_warnings, exit_code, arg, ret>>

\* lines 195-203
ValidateStructure ==
    /\ pc = "structure"
    /\ LET r == validate_package_structure(PackageNameOf(package_file), package_data) IN
       /\ trace' = Append(trace, Event("structure", package_file, <<>>,
                                       Len(r.errors), 0))
       /\ IF r.raised
          THEN Crash /\ UNCHANGED total_errors
          ELSE /\ total_errors' = Count(total_errors, r.errors)
               /\ pc' = IF SkipVersions(r.errors) THEN "loop" ELSE "versions"
               /\ exit_code' = exit_code
    /\ UNCHANGED <<fs_index, fs_dir_exists, fs_dir, index_data, package_files,
                   remaining, package_file, package_data, total_warnings, arg, ret>>

\* The HEAD requests of one call of validate_package_versions, as events; the
\* errors field of such an event is 1 when the answer was not HTTP 200
HeadEvents(file, requests, net) ==
    [i \in 1..Len(requests) |->
        Event("head", file, requests[i].version,
              IF net[requests[i].version] = Response(200) THEN 0 ELSE 1, 0)]

\* lines 205-217
ValidateVersions ==
    /\ pc = "versions"
    /\ \E net \in NetOf(package_data) :
          LET r == validate_package_versions(PackageNameOf(package_file),
                                             package_data, net) IN
          /\ trace' = Append(trace, Event("versions", package_file, <<>>,
                                          Len(r.errors), Len(r.warnings)))
                      \o HeadEvents(package_file, r.requests, net)
          /\ IF r.raised
             THEN Crash /\ UNCHANGED <<total_errors, total_warnings>>
             ELSE /\ total_errors' = Count(total_errors, r.errors)
                  /\ total_warnings' = Count(total_warnings, r.warnings)
                  /\ pc' = "loop"
                  /\ exit_code' = exit_code
    /\ UNCHANGED <<fs_index, fs_dir_exists, fs_dir, index_data, package_files,
                   remaining, package_file, package_data, arg, ret>>

\* lines 219-231
Summary ==
    /\ pc = "loop"
    /\ remaining = {}
    /\ trace' = Append(trace, Event("summary", <<>>, <<>>, total_errors, total_warnings))
    /\ exit_code' = ExitCode(total_errors, total_warnings)
    /\ pc' = "done"
    /\ UNCHANGED <<fs_index, fs_dir_exists, fs_dir, index_data, package_files,
                   remaining, package_file, package_data, total_errors,
                   total_warnings, arg, ret>>

Next ==
    \/ LoadIndex
    \/ CheckDir
    \/ CheckConsistency
    \/ LoadPackage
    \/ ValidateStructure
    \/ ValidateVersions
    \/ Summary

Spec == Init /\ [][Next]_vars

----------------------------------------------------------------------------
(* Vocabulary of the properties. *)

Terminated == pc \in {"done", "crashed"}
IndexLoads == load_json_file(fs_index) # None
Has(ev) == \E i \in DOMAIN trace : trace[i].ev = ev
SummaryPrinted == Has("summary")
Occurrences(ev, file) ==
    Cardinality({i \in DOMAIN trace : trace[i].ev = ev /\ trace[i].file = file})
\* how often q holds a message that says `kind` about `what`
CountMsg(q, kind, what) == Cardinality({i \in DOMAIN q : q[i] = <<kind, what>>})
\* how often q holds a message about `what`
CountAbout(q, what) == Cardinality({i \in DOMAIN q : q[i][2] = what})
\* file name without its last five characters, the suffix ".json"
Stem(file) == SubSeq(file, 1, Len(file) - Len(DOT_JSON))

RECURSIVE SumOver(_, _)
SumOver(S, f) ==
    IF S = {} THEN 0
    ELSE LET x == CHOOSE y \in S : TRUE IN f[x] + SumOver(S \ {x}, f)

----------------------------------------------------------------------------
(* C1: when index.json loads and packages/ exists, the exit code is 0 iff  *)
(* the summary is printed with an error counter of zero, and 1 otherwise;  *)
(* the warning counter has no part in it.                                  *)
C1_ExitCode ==
    (Terminated /\ IndexLoads /\ fs_dir_exists) =>
        /\ exit_code \in {0, 1}
        /\ exit_code = 0 <=> (SummaryPrinted /\ total_errors = 0)

C1_Witness ==
    /\ pc = "done"
    /\ SummaryPrinted
    /\ total_warnings > 0
    /\ total_errors = 0
    /\ exit_code = 0

(* C2: whatever index.json and the package files hold, main() ends by      *)
(* returning 0 or 1; no exception escapes, and it ends before the summary  *)
(* only when the index does not load or packages/ is missing.              *)
C2_NoUncaughtException ==
    Terminated =>
        /\ pc = "done"
        /\ exit_code \in {0, 1}
        /\ ~SummaryPrinted => (~IndexLoads \/ ~fs_dir_exists)

(* C3: once the index is loaded and packages/ enumerated, the run ends     *)
(* with every package file loaded exactly once and the summary printed,    *)
(* whatever the other package files hold (stated for the runs whose index  *)
(* is an object, which pass the consistency check).                        *)
C3_FailSoft ==
    /\ \A f \in package_files : Occurrences("load", f) <= 1
    /\ (Terminated /\ isinstance_dict(index_data) /\ fs_dir_exists) =>
          /\ SummaryPrinted
          /\ \A f \in package_files : Occurrences("load", f) = 1

(* C4: validate_index_consistency returns exactly one error for each index *)
(* key K without a file K.json, one for each file whose name without the   *)
(* suffix .json is no index key, and nothing else; so it returns no error  *)
(* exactly when keys and file stems are the same set.                      *)
C4_ExactErrors ==
    pc = "returned" =>
        LET keys == DOMAIN arg.index_data.o
            files == arg.package_files
            errors == ret.errors
            k_msg == "Package in index.json but no corresponding file"
            f_msg == "Package file not referenced in index.json"
        IN /\ ~ret.raised
           /\ \A k \in keys :
                 CountMsg(errors, k_msg, k) = (IF k \o DOT_JSON \in files THEN 0 ELSE 1)
           /\ \A f \in files :
                 CountMsg(errors, f_msg, f) = (IF Stem(f) \in keys THEN 0 ELSE 1)
           /\ \A i \in DOMAIN errors :
                 \/ errors[i][1] = k_msg /\ errors[i][2] \in keys
                 \/ errors[i][1] = f_msg /\ errors[i][2] \in files
           /\ errors = <<>> <=> keys = {Stem(f) : f \in files}

(* C5: for a descriptor whose versions is a mapping with a latest entry,   *)
(* validate_package_structure returns an error about the latest version    *)
(* whenever the value of latest is not a key of versions other than        *)
(* "latest".                                                               *)
C5_LatestIsAnotherKey ==
    LET data == arg.package_data IN
    (/\ pc \in {"returned", "raised"}
     /\ isinstance_dict(data)
     /\ K_versions \in DOMAIN data.o
     /\ isinstance_dict(data.o[K_versions])
     /\ K_latest \in DOMAIN data.o[K_versions].o) =>
        LET versions == data.o[K_versions]
            latest == versions.o[K_latest]
            resolves == /\ latest.t = "string"
                        /\ latest.s \in DOMAIN versions.o \ {K_latest}
        IN ~resolves =>
              /\ pc = "returned"
              /\ \E i \in DOMAIN ret.errors :
                    ret.errors[i][1] = "Latest version not found in versions"

(* C6: for every descriptor that is a mapping, validate_package_structure  *)
(* returns a list with exactly one "Missing required field" entry for each *)
(* absent required field and none for a present one, whatever else it      *)
(* reports; and the list is empty when all four fields are present, name   *)
(* is the package name and latest names a version key.                     *)
C6_Accumulates ==
    LET data == arg.package_data IN
    (pc \in {"returned", "raised"} /\ isinstance_dict(data)) =>
        /\ pc = "returned"
        /\ \A field \in Range(required_fields) :
              CountMsg(ret.errors, "Missing required field", field)
                 = (IF field \in DOMAIN data.o THEN 0 ELSE 1)
        /\ (/\ Range(required_fields) \subseteq DOMAIN data.o
            /\ PyEq(data.o[K_name], JStr(arg.package_name))
            /\ isinstance_dict(data.o[K_versions])
            /\ K_latest \in DOMAIN data.o[K_versions].o
            /\ data.o[K_versions].o[K_latest].t = "string"
            /\ data.o[K_versions].o[K_latest].s
                  \in DOMAIN data.o[K_versions].o \ {K_latest})
           => ret.errors = <<>>

(* C7: when index.json does not load, or packages/ is missing, main()      *)
(* returns 1 at once: nothing but the index load (and the directory check) *)
(* has run.  The index load is always the first operation, the directory   *)
(* check the second, the consistency check the third, and every load,      *)
(* validation, HEAD request and the summary come after them.               *)
C7_AbortOrder ==
    /\ (pc # "load_index" /\ ~IndexLoads) =>
          /\ pc = "done"
          /\ exit_code = 1
          /\ Len(trace) = 1
    /\ (pc \notin {"load_index", "check_dir"} /\ IndexLoads /\ ~fs_dir_exists) =>
          /\ pc = "done"
          /\ exit_code = 1
          /\ Len(trace) = 2
    /\ \A i \in DOMAIN trace :
          /\ trace[i].ev = "load_index" <=> i = 1
          /\ trace[i].ev = "check_dir" <=> i = 2
          /\ trace[i].ev = "consistency" <=> i = 3

C7_Witness ==
    /\ pc = "done"
    /\ ~IndexLoads
    /\ fs_dir_exists
    /\ ListPackageFiles(fs_dir) # {}
    /\ exit_code = 1

\* what validate_package_structure returns for package file f
StructureOf(f) ==
    validate_package_structure(PackageNameOf(f), load_json_file(fs_dir[f]))

\* f loads and has no structure error
CleanPackage(f) ==
    /\ load_json_file(fs_dir[f]) # None
    /\ ~StructureOf(f).raised
    /\ StructureOf(f).errors = <<>>

\* the warnings main() counted for package file f
WarningsCounted(f) ==
    SumOver({i \in DOMAIN trace : trace[i].ev = "versions" /\ trace[i].file = f},
            [i \in DOMAIN trace |-> trace[i].warnings])

(* C8: validate_package_versions is called, and a HEAD request sent, only  *)
(* for a package file that loaded and whose structure validation returned  *)
(* no error, and only after that validation; a package file that fails to  *)
(* load or has a structure error adds nothing to the warning counter.      *)
C8_VersionsAfterCleanStructure ==
    /\ \A i \in DOMAIN trace :
          trace[i].ev \in {"versions", "head"} =>
             /\ CleanPackage(trace[i].file)
             /\ \E j \in 1..(i - 1) :
                   /\ trace[j].ev = "structure"
                   /\ trace[j].file = trace[i].file
                   /\ trace[j].errors = 0
                   /\ \E k \in 1..(j - 1) :
                         /\ trace[k].ev = "load"
                         /\ trace[k].file = trace[i].file
                         /\ trace[k].errors = 0
    /\ total_warnings = SumOver(package_files, [f \in package_files |-> WarningsCounted(f)])
    /\ \A f \in package_files : ~CleanPackage(f) => WarningsCounted(f) = 0

\* a finished run with a package that has a structure error and a legacy
\* version entry, which would have given a warning
C8_Witness ==
    /\ pc = "done"
    /\ SummaryPrinted
    /\ \E i \in DOMAIN trace :
          /\ trace[i].ev = "structure"
          /\ trace[i].errors > 0
          /\ LET d == fs_dir[trace[i].file] IN
             /\ isinstance_dict(d)
             /\ K_versions \in DOMAIN d.o
             /\ isinstance_dict(d.o[K_versions])
             /\ \E k \in DOMAIN d.o[K_versions].o \ {K_latest} :
                   ~isinstance_dict(d.o[K_versions].o[k])

\* the HEAD request failed: anything but a response with status 200
CheckFails(response) == response.exc # "none" \/ response.status_code # 200

(* C9: validate_package_versions handles every key of versions other than *)
(* "latest" exactly once: a non-object value gives one warning and no URL  *)
(* check, an object without download one error and no URL check, an object *)
(* with download exactly one URL check and one error iff the check fails.  *)
(* Nothing is reported or requested for "latest", and no outcome of one    *)
(* version changes that of another.                                        *)
C9_VersionOutcomes ==
    LET data == arg.package_data IN
    (pc = "returned" /\ K_versions \in DOMAIN data.o) =>
        LET versions == data.o[K_versions].o
            r == ret.result
            keys == DOMAIN versions \ {K_latest}
            requested(k) ==
                Cardinality({i \in DOMAIN r.requests : r.requests[i].version = k})
        IN /\ ~r.raised
           /\ \A k \in keys :
                 IF ~isinstance_dict(versions[k])
                 THEN /\ CountAbout(r.warnings, k) = 1
                      /\ CountAbout(r.errors, k) = 0
                      /\ requested(k) = 0
                 ELSE IF K_download \notin DOMAIN versions[k].o
                 THEN /\ CountAbout(r.warnings, k) = 0
                      /\ CountMsg(r.errors, "Version missing download URL", k) = 1
                      /\ CountAbout(r.errors, k) = 1
                      /\ requested(k) = 0
                 ELSE /\ CountAbout(r.warnings, k) = 0
                      /\ requested(k) = 1
                      /\ CountAbout(r.errors, k)
                            = (IF CheckFails(ret.net[k]) THEN 1 ELSE 0)
           /\ \A i \in DOMAIN r.errors : r.errors[i][2] \in keys
           /\ \A i \in DOMAIN r.warnings : r.warnings[i][2] \in keys
           /\ \A i \in DOMAIN r.requests : r.requests[i].version \in keys

\* a legacy entry, a failed URL check and a latest entry in one call
C9_Witness ==
    /\ pc = "returned"
    /\ K_versions \in DOMAIN arg.package_data.o
    /\ LET versions == arg.package_data.o[K_versions].o IN
       /\ K_latest \in DOMAIN versions
       /\ \E k \in DOMAIN versions \ {K_latest} : ~isinstance_dict(versions[k])
       /\ \E k \in DOMAIN ret.net :
             /\ isinstance_dict(versions[k])
             /\ K_download \in DOMAIN versions[k].o
             /\ CheckFails(ret.net[k])
    /\ Len(ret.result.errors) = 1
    /\ Len(ret.result.warnings) = 1

\* version keys of a clean package file f with a property P
VersionsWith(f, P(_)) ==
    LET versions == fs_dir[f].o[K_versions].o IN
    {k \in DOMAIN versions \ {K_latest} : P(versions[k])}

NoDownload(entry) == isinstance_dict(entry) /\ K_download \notin DOMAIN entry.o
NotAnObject(entry) == ~isinstance_dict(entry)

FailedChecks(f) ==
    Cardinality({i \in DOMAIN trace :
                    trace[i].ev = "head" /\ trace[i].file = f /\ trace[i].errors = 1})

ExpectedErrors ==
    LET files == ListPackageFiles(fs_dir)
        loaded == {f \in files : load_json_file(fs_dir[f]) # None}
        clean == {f \in files : CleanPackage(f)}
    IN Len(validate_index_consistency(load_json_file(fs_index), files).errors)
       + Cardinality(files \ loaded)
       + SumOver(loaded, [f \in loaded |-> Len(StructureOf(f).errors)])
       + SumOver(clean, [f \in clean |->
                            Cardinality(VersionsWith(f, NoDownload)) + FailedChecks(f)])

ExpectedWarnings ==
    LET clean == {f \in ListPackageFiles(fs_dir) : CleanPackage(f)}
    IN SumOver(clean, [f \in clean |-> Cardinality(VersionsWith(f, NotAnObject))])

(* C10: the error and warning counters never decrease, and at the summary  *)
(* the error counter is the number of consistency errors, plus one for     *)
(* each package file that failed to load, plus the structure errors of the *)
(* loaded packages, plus the version errors of the packages without        *)
(* structure error; the warning counter is the number of non-object        *)
(* version entries of the packages without structure error.                *)
C10_Counters ==
    /\ [](SummaryPrinted =>
             /\ total_errors = ExpectedErrors
             /\ total_warnings = ExpectedWarnings)
    /\ [][/\ total_errors' >= total_errors
          /\ total_warnings' >= total_warnings]_vars

\* a summary after consistency errors, a load failure, a version error and
\* a warning
C10_Witness ==
    /\ SummaryPrinted
    /\ total_warnings > 0
    /\ \E i \in DOMAIN trace : trace[i].ev = "consistency" /\ trace[i].errors > 1
    /\ \E i \in DOMAIN trace : trace[i].ev = "load" /\ trace[i].errors = 1
    /\ \E i \in DOMAIN trace : trace[i].ev = "versions" /\ trace[i].errors > 0
    /\ total_errors > 3

====
